---- MODULE Spec2Model ----
(***************************************************************************)
(* A model of src/cpp/src/geos_js.cpp: the flat buffer geometry codec      *)
(* (geosify: buffer to GEOS geometries, jsonify: GEOS geometries to        *)
(* buffer) and the STRtree query layer.                                    *)
(*                                                                         *)
(* The module holds four components, each with its own initial states and  *)
(* actions; the variable comp says which component a behaviour runs.       *)
(*   header  : header word packing (jsonify) and unpacking (geosify)       *)
(*   jsonify : jsonify_geoms                                               *)
(*   geosify : geosify_geomsCoords followed by geosify_geoms_r             *)
(*   strtree : STRtree_create_r, the nearest queries, STRtree_destroy_r    *)
(***************************************************************************)
EXTENDS Integers, Sequences, FiniteSets, TLC

VARIABLES
    comp,      \* the component this behaviour runs
    pc,        \* position inside the running function
    \* ---- header component
    hdrIn,     \* [type, isEmpty, hasZ, hasM] the encoder is about to pack
    hdrWord,   \* the packed header word
    hdrOut,    \* what the decoder extracts from hdrWord
    \* ---- jsonify_geoms
    geoms,     \* geoms_cpp[0..geomsLength-1]: the geometry trees behind the handles
    avail,     \* buff[2 + geomsLength] as the caller wrote it
    buff0,     \* buff[0]
    buff1,     \* buff[1]
    jz,        \* locals of jsonify_geoms: bCount, fCount, where, Bword, Fword, B, b, F, f
    \* ---- geosify
    gmem,      \* words of the buffer from buff + 2 on (D, then S, then what follows)
    gz,        \* dLength, cursors and outcome of the two decode passes
    \* ---- STRtree
    heap,      \* allocation state of the geometry array, the GEOSSTRtree, the wrapper
    q          \* the running nearest query (STRtreeNearestState and the kernel's calls)

vars == <<comp, pc, hdrIn, hdrWord, hdrOut, geoms, avail, buff0, buff1, jz, gmem, gz, heap, q>>

(***************************************************************************)
(* Bounds of the model.                                                    *)
(***************************************************************************)
MaxPts   == 2   \* points of a non-empty coordinate sequence
MaxKids  == 2   \* children of a collection
MaxRings == 1   \* interior rings of a polygon
MaxGeoms == 2   \* top-level geometries handed to jsonify_geoms
BuffSlot == 16  \* the caller's buffer sits at byte address 8 * BuffSlot
TmpSlot  == 64  \* malloc hands out the byte address 8 * TmpSlot
CsSlot   == 32  \* coordinate storage of the kernel sits at 8 * CsSlot and up
GeomSlot == 128 \* geometries the decoder creates sit at 8 * GeomSlot and up
MaxD     == 3   \* words of the integer region handed to the decoder
MaxOver  == 1   \* words of memory the model keeps behind the integer region
NGeoms   == 3   \* geometries in the array handed to STRtree_create_r
MaxDist  == 2   \* largest distance the kernel computes, in units of 1e-6

(***************************************************************************)
(* Machine arithmetic: shifts and bitwise operators on u32 words.  Every   *)
(* word of the model stays far below 2^32, so no operation wraps.          *)
(***************************************************************************)
RECURSIVE Pow2(_)
Pow2(k) == IF k = 0 THEN 1 ELSE 2 * Pow2(k - 1)

Shl(x, k) == x * Pow2(k)
Shr(x, k) == x \div Pow2(k)

RECURSIVE BitAnd(_, _)
BitAnd(x, y) ==
    IF x = 0 \/ y = 0 THEN 0
    ELSE (IF x % 2 = 1 /\ y % 2 = 1 THEN 1 ELSE 0) + 2 * BitAnd(x \div 2, y \div 2)

RECURSIVE BitOr(_, _)
BitOr(x, y) ==
    IF x = 0 THEN y
    ELSE IF y = 0 THEN x
    ELSE (IF x % 2 = 1 \/ y % 2 = 1 THEN 1 ELSE 0) + 2 * BitOr(x \div 2, y \div 2)

B2N(b) == IF b THEN 1 ELSE 0

(***************************************************************************)
(* GeometryTypeId, as the switch statements use it.                        *)
(***************************************************************************)
GEOS_POINT              == 0
GEOS_LINESTRING         == 1
GEOS_LINEARRING         == 2
GEOS_POLYGON            == 3
GEOS_MULTIPOINT         == 4
GEOS_MULTILINESTRING    == 5
GEOS_MULTIPOLYGON       == 6
GEOS_GEOMETRYCOLLECTION == 7
GEOS_CIRCULARSTRING     == 8
GEOS_COMPOUNDCURVE      == 9
GEOS_CURVEPOLYGON       == 10
GEOS_MULTICURVE         == 11
GEOS_MULTISURFACE       == 12

(***************************************************************************)
(* Header word.  The encoder packs it (jsonify_inspectGeom, line 382), the *)
(* decoder extracts its fields (geosify_geom, lines 144-153).              *)
(***************************************************************************)
PackHeaderShiftSlip(type, isEmpty, hasZ, hasM) ==
    BitOr(BitOr(BitOr(type, Shl(B2N(isEmpty), 4)), Shl(B2N(hasZ), 4)), Shl(B2N(hasM), 6))

PackHeader(type, isEmpty, hasZ, hasM) ==
    BitOr(BitOr(BitOr(type, Shl(B2N(isEmpty), 4)), Shl(B2N(hasZ), 5)), Shl(B2N(hasM), 6))

HeaderType(header)    == BitAnd(header, 15)
HeaderIsEmpty(header) == BitAnd(Shr(header, 4), 1) = 1
HeaderHasZ(header)    == BitAnd(Shr(header, 5), 1) = 1
HeaderHasM(header)    == BitAnd(Shr(header, 6), 1) = 1

UnpackHeader(header) ==
    [type    |-> HeaderType(header),
     isEmpty |-> HeaderIsEmpty(header),
     hasZ    |-> HeaderHasZ(header),
     hasM    |-> HeaderHasM(header)]

(***************************************************************************)
(* Geometry trees as the kernel holds them.  A node is                     *)
(*   [t, z, m, n, data, kids]                                              *)
(* t the type id, z/m what hasZ()/hasM() answer, n the size of the node's  *)
(* own coordinate sequence and data the /8 address of its storage (Point   *)
(* and the simple curves), kids the rings (Polygon, CurvePolygon: shell    *)
(* first), the curves (CompoundCurve) or the members (collections).        *)
(***************************************************************************)
Node(t, z, m, n, kids) ==
    [t |-> t, z |-> z, m |-> m, n |-> n, data |-> CsSlot + t + n, kids |-> kids]

SeqsUpTo(S, k) == UNION {[1..i -> S] : i \in 0..k}

PointsOf(z, m) == {Node(GEOS_POINT, z, m, n, <<>>) : n \in {0, 1}}
CurveOf(t, z, m, n) == Node(t, z, m, n, <<>>)
CurvesOf(z, m) ==
    {CurveOf(t, z, m, n) :
        t \in {GEOS_LINESTRING, GEOS_LINEARRING, GEOS_CIRCULARSTRING}, n \in {0, MaxPts}}
LinesOf(z, m) == {CurveOf(GEOS_LINESTRING, z, m, n) : n \in {0, MaxPts}}
Ring(z, m) == CurveOf(GEOS_LINEARRING, z, m, MaxPts)
EmptyRing(z, m) == CurveOf(GEOS_LINEARRING, z, m, 0)
PolygonsOf(z, m) ==
    {Node(GEOS_POLYGON, z, m, 0, <<EmptyRing(z, m)>>)} \cup
    {Node(GEOS_POLYGON, z, m, 0, [i \in 1..(k + 1) |-> Ring(z, m)]) : k \in 0..MaxRings}
MultiPointsOf(z, m) ==
    {Node(GEOS_MULTIPOINT, z, m, 0, ks) : ks \in SeqsUpTo(PointsOf(z, m), MaxKids)}
MultiLinesOf(z, m) ==
    {Node(GEOS_MULTILINESTRING, z, m, 0, ks) : ks \in SeqsUpTo(LinesOf(z, m), MaxKids)}
MultiPolygonsOf(z, m) ==
    {Node(GEOS_MULTIPOLYGON, z, m, 0, ks) : ks \in SeqsUpTo(PolygonsOf(z, m), MaxKids)}
SegmentsOf(z, m) ==
    {CurveOf(GEOS_LINESTRING, z, m, MaxPts), CurveOf(GEOS_LINESTRING, z, m, 0),
     CurveOf(GEOS_CIRCULARSTRING, z, m, MaxPts)}
CompoundCurvesOf(z, m) ==
    {Node(GEOS_COMPOUNDCURVE, z, m, 0, ks) : ks \in SeqsUpTo(SegmentsOf(z, m), MaxKids)}
OneSegmentCurve(z, m) ==
    Node(GEOS_COMPOUNDCURVE, z, m, 0, <<CurveOf(GEOS_LINESTRING, z, m, MaxPts)>>)
CurveRingsOf(z, m) ==
    {Ring(z, m), CurveOf(GEOS_CIRCULARSTRING, z, m, MaxPts), OneSegmentCurve(z, m)}
CurvePolygonsOf(z, m) ==
    {Node(GEOS_CURVEPOLYGON, z, m, 0, <<EmptyRing(z, m)>>)} \cup
    {Node(GEOS_CURVEPOLYGON, z, m, 0,
          [i \in 1..(k + 1) |-> IF i = 1 THEN sh ELSE CurveOf(GEOS_CIRCULARSTRING, z, m, MaxPts)]) :
        sh \in CurveRingsOf(z, m), k \in 0..MaxRings}
SimplePolygon(z, m) == Node(GEOS_POLYGON, z, m, 0, <<Ring(z, m)>>)
MembersOf(z, m) ==
    PointsOf(z, m) \cup LinesOf(z, m) \cup
    {SimplePolygon(z, m),
     Node(GEOS_GEOMETRYCOLLECTION, z, m, 0, <<>>),
     Node(GEOS_GEOMETRYCOLLECTION, z, m, 0, <<Node(GEOS_POINT, z, m, 1, <<>>)>>)}
CollectionsOf(z, m) ==
    {Node(GEOS_GEOMETRYCOLLECTION, z, m, 0, ks) : ks \in SeqsUpTo(MembersOf(z, m), MaxKids)}
MultiCurvesOf(z, m) ==
    {Node(GEOS_MULTICURVE, z, m, 0, ks) :
        ks \in SeqsUpTo({CurveOf(GEOS_LINESTRING, z, m, MaxPts),
                         CurveOf(GEOS_CIRCULARSTRING, z, m, 0),
                         OneSegmentCurve(z, m)}, MaxKids)}
MultiSurfacesOf(z, m) ==
    {Node(GEOS_MULTISURFACE, z, m, 0, ks) :
        ks \in SeqsUpTo({SimplePolygon(z, m),
                         Node(GEOS_POLYGON, z, m, 0, <<EmptyRing(z, m)>>),
                         Node(GEOS_CURVEPOLYGON, z, m, 0, <<Ring(z, m)>>)}, MaxKids)}

GeomsOf(z, m) ==
    PointsOf(z, m) \cup CurvesOf(z, m) \cup PolygonsOf(z, m) \cup MultiPointsOf(z, m)
    \cup MultiLinesOf(z, m) \cup MultiPolygonsOf(z, m) \cup CompoundCurvesOf(z, m)
    \cup CurvePolygonsOf(z, m) \cup CollectionsOf(z, m) \cup MultiCurvesOf(z, m)
    \cup MultiSurfacesOf(z, m)

\* the geometries that may follow the first one in the caller's array
MoreGeomsOf(z, m) ==
    {Node(GEOS_POINT, z, m, 1, <<>>), CurveOf(GEOS_LINESTRING, z, m, 0),
     Node(GEOS_MULTIPOLYGON, z, m, 0, <<>>)}

GeomLists ==
    {<<>>} \cup
    UNION {{<<g>> \o rest : g \in GeomsOf(z, m),
                            rest \in SeqsUpTo(MoreGeomsOf(z, m), MaxGeoms - 1)} :
           z \in BOOLEAN, m \in BOOLEAN}

(***************************************************************************)
(* Kernel queries on a geometry (Geometry::isEmpty and friends).           *)
(***************************************************************************)
RECURSIVE isEmpty(_)
isEmpty(g) ==
    IF g.t \in {GEOS_POINT, GEOS_LINESTRING, GEOS_LINEARRING, GEOS_CIRCULARSTRING}
        THEN g.n = 0
    ELSE IF g.t \in {GEOS_POLYGON, GEOS_CURVEPOLYGON}
        THEN isEmpty(g.kids[1])
    ELSE \A i \in 1..Len(g.kids) : isEmpty(g.kids[i])

hasZ(g) == g.z
hasM(g) == g.m
getNumGeometries(g) == Len(g.kids)
getNumInteriorRing(g) == Len(g.kids) - 1
getExteriorRing(g) == g.kids[1]
getInteriorRingN(g, i) == g.kids[i + 2]
getGeometryN(g, i) == g.kids[i + 1]

(***************************************************************************)
(* jsonify: the measuring pass.  c = [b, f] are the two counters.          *)
(***************************************************************************)
Ordinates(hasZflag, hasMflag) == IF hasMflag THEN 4 ELSE IF hasZflag THEN 3 ELSE 2

RECURSIVE jsonify_measureGeom(_, _)
RECURSIVE MeasureEach(_, _, _)
RECURSIVE MeasurePolygons(_, _, _)

MeasureEach(gs, i, c) ==
    IF i >= Len(gs) THEN c
    ELSE MeasureEach(gs, i + 1, jsonify_measureGeom(gs[i + 1], c))

MeasurePolygons(multiPolygon, i, c) ==
    IF i >= getNumGeometries(multiPolygon) THEN c
    ELSE MeasurePolygons(multiPolygon, i + 1,
            [c EXCEPT !.b = (c.b + 3 + getNumInteriorRing(getGeometryN(multiPolygon, i)) * 2)])

jsonify_measureGeom(g, c) ==
    IF g.t = GEOS_POINT THEN
        [b |-> (c.b + 1),
         f |-> (c.f + (IF isEmpty(g) THEN 0 ELSE Ordinates(hasZ(g), hasM(g))))]
    ELSE IF g.t \in {GEOS_LINESTRING, GEOS_LINEARRING, GEOS_CIRCULARSTRING} THEN
        [c EXCEPT !.b = (c.b + 3)]
    ELSE IF g.t = GEOS_POLYGON THEN
        [c EXCEPT !.b = (c.b + 4 + getNumInteriorRing(g) * 2)]
    ELSE IF g.t = GEOS_MULTIPOINT THEN
        [b |-> (c.b + 2),
         f |-> (c.f + getNumGeometries(g) * Ordinates(hasZ(g), hasM(g)))]
    ELSE IF g.t = GEOS_MULTILINESTRING THEN
        [c EXCEPT !.b = (c.b + 2 + getNumGeometries(g) * 2)]
    ELSE IF g.t = GEOS_MULTIPOLYGON THEN
        MeasurePolygons(g, 0, [c EXCEPT !.b = (c.b + 2)])
    ELSE IF g.t \in {GEOS_GEOMETRYCOLLECTION, GEOS_MULTICURVE, GEOS_MULTISURFACE} THEN
        MeasureEach(g.kids, 0, [c EXCEPT !.b = (c.b + 2)])
    ELSE IF g.t = GEOS_COMPOUNDCURVE THEN
        MeasureEach(g.kids, 0, [c EXCEPT !.b = (c.b + 2)])
    ELSE IF g.t = GEOS_CURVEPOLYGON THEN
        \* exterior ring first, then the interior rings: the rings in order
        MeasureEach(g.kids, 0, [c EXCEPT !.b = (c.b + 2)])
    ELSE c

(***************************************************************************)
(* jsonify: the writing pass.  w = [B, b, F, f]: the words written to the  *)
(* integer region (B[0] is B[1] here), the ordinates written to the float  *)
(* region, and the two cursors.                                            *)
(***************************************************************************)
Put(seq, idx, v) ==
    IF idx < Len(seq) THEN [seq EXCEPT ![idx + 1] = v]
    ELSE seq \o [i \in 1..(idx - Len(seq)) |-> -1] \o <<v>>

PutB(w, v) == [w EXCEPT !.B = Put(w.B, w.b, v), !.b = (w.b + 1)]

RECURSIVE CopyOrdinates(_, _, _, _)
CopyOrdinates(w, point, k, n) ==
    IF k >= n THEN w
    ELSE CopyOrdinates([w EXCEPT !.F = Put(w.F, w.f + k, point.data * 8 + k)], point, k + 1, n)

jsonify_inspectPoint(point, hasZflag, hasMflag, w) ==
    LET n == Ordinates(hasZflag, hasMflag)
    IN  [CopyOrdinates(w, point, 0, n) EXCEPT !.f = (w.f + n)]

jsonify_inspectCurve(curve, w) == PutB(PutB(w, curve.n), curve.data)

RECURSIVE InspectRings(_, _, _)
InspectRings(polygon, i, w) ==
    IF i >= getNumInteriorRing(polygon) THEN w
    ELSE InspectRings(polygon, i + 1, jsonify_inspectCurve(getInteriorRingN(polygon, i), w))

jsonify_inspectPolygon(polygon, w) ==
    InspectRings(polygon, 0,
        jsonify_inspectCurve(getExteriorRing(polygon),
                             PutB(w, (getNumInteriorRing(polygon) + 1))))

RECURSIVE InspectPoints(_, _, _)
InspectPoints(g, i, w) ==
    IF i >= getNumGeometries(g) THEN w
    ELSE InspectPoints(g, i + 1, jsonify_inspectPoint(getGeometryN(g, i), hasZ(g), hasM(g), w))

RECURSIVE InspectCurves(_, _, _)
InspectCurves(g, i, w) ==
    IF i >= getNumGeometries(g) THEN w
    ELSE InspectCurves(g, i + 1, jsonify_inspectCurve(getGeometryN(g, i), w))

RECURSIVE InspectPolygons(_, _, _)
InspectPolygons(g, i, w) ==
    IF i >= getNumGeometries(g) THEN w
    ELSE InspectPolygons(g, i + 1, jsonify_inspectPolygon(getGeometryN(g, i), w))

RECURSIVE jsonify_inspectGeom(_, _)
RECURSIVE InspectEach(_, _, _)

InspectEach(gs, i, w) ==
    IF i >= Len(gs) THEN w
    ELSE InspectEach(gs, i + 1, jsonify_inspectGeom(gs[i + 1], w))

InspectBody(g, w) ==
    IF g.t = GEOS_POINT THEN jsonify_inspectPoint(g, hasZ(g), hasM(g), w)
    ELSE IF g.t \in {GEOS_LINESTRING, GEOS_LINEARRING, GEOS_CIRCULARSTRING} THEN
        jsonify_inspectCurve(g, w)
    ELSE IF g.t = GEOS_POLYGON THEN jsonify_inspectPolygon(g, w)
    ELSE IF g.t = GEOS_MULTIPOINT THEN
        InspectPoints(g, 0, PutB(w, getNumGeometries(g)))
    ELSE IF g.t = GEOS_MULTILINESTRING THEN
        InspectCurves(g, 0, PutB(w, getNumGeometries(g)))
    ELSE IF g.t = GEOS_MULTIPOLYGON THEN
        InspectPolygons(g, 0, PutB(w, getNumGeometries(g)))
    ELSE IF g.t \in {GEOS_GEOMETRYCOLLECTION, GEOS_MULTICURVE, GEOS_MULTISURFACE} THEN
        InspectEach(g.kids, 0, PutB(w, getNumGeometries(g)))
    ELSE IF g.t = GEOS_COMPOUNDCURVE THEN
        InspectEach(g.kids, 0, PutB(w, getNumGeometries(g)))
    ELSE IF g.t = GEOS_CURVEPOLYGON THEN
        InspectEach(g.kids, 0, PutB(w, (getNumInteriorRing(g) + 1)))
    ELSE w

InspectGeomNoEmptyReturn(g, w) ==
    InspectBody(g, PutB(w, PackHeader(g.t, isEmpty(g), hasZ(g), hasM(g))))

jsonify_inspectGeom(g, w) ==
    LET w1 == PutB(w, PackHeader(g.t, isEmpty(g), hasZ(g), hasM(g)))
    IN  IF isEmpty(g) THEN w1 ELSE InspectBody(g, w1)

(***************************************************************************)
(* jsonify_geoms.  The caller's buffer sits at byte address BuffAddr; the  *)
(* spare region starts at word 2 + geomsLength, whose first word holds     *)
(* the spare capacity.                                                     *)
(***************************************************************************)
BuffAddr == 8 * BuffSlot
TmpAddr  == 8 * TmpSlot

geomsLength == Len(geoms)

NeedsAllocOffByOne(bCount, fCount, buffAvailableL4) ==
    (bCount + fCount * 2) >= buffAvailableL4

NeedsAlloc(bCount, fCount, buffAvailableL4) ==
    (bCount + fCount * 2) > buffAvailableL4

MeasureAll(gs) == MeasureEach(gs, 0, [b |-> 0, f |-> 0])
MeasuredSize(gs) == MeasureAll(gs).b + 2 * MeasureAll(gs).f

JzInit ==
    [i |-> 0, bCount |-> 0, fCount |-> 0, where |-> "none", Baddr |-> 0, Faddr |-> 0,
     w |-> [B |-> <<>>, b |-> 0, F |-> <<>>, f |-> 0]]

\* lines 479-482: one turn of the measuring loop
jsonify_geoms_measure ==
    /\ comp = "jsonify" /\ pc = "measure" /\ jz.i < geomsLength
    /\ LET c == jsonify_measureGeom(geoms[jz.i + 1], [b |-> jz.bCount, f |-> jz.fCount])
       IN  jz' = [jz EXCEPT !.i = jz.i + 1, !.bCount = c.b, !.fCount = c.f]
    /\ UNCHANGED <<comp, pc, hdrIn, hdrWord, hdrOut, geoms, avail, buff0, buff1, gmem, gz, heap, q>>

\* lines 484-499: the buffer is chosen and the two header slots are set
jsonify_geoms_select ==
    /\ comp = "jsonify" /\ pc = "measure" /\ jz.i >= geomsLength
    /\ IF NeedsAlloc(jz.bCount, jz.fCount, avail)
         THEN LET bc == (jz.bCount + (jz.bCount % 2))
              IN  /\ buff0' = TmpAddr
                  /\ jz' = [jz EXCEPT !.i = 0, !.bCount = bc, !.where = "tmp",
                                      !.Baddr = TmpAddr, !.Faddr = TmpAddr + 8 * (bc \div 2)]
         ELSE LET o == 2 + geomsLength
              IN  /\ buff0' = buff0
                  /\ jz' = [jz EXCEPT !.i = 0, !.where = "in",
                                      !.Baddr = BuffAddr + 4 * o,
                                      !.Faddr = BuffAddr + 8 * ((o + jz.bCount + 1) \div 2)]
    /\ buff1' = (jz'.Faddr \div 8)
    /\ pc' = "write"
    /\ UNCHANGED <<comp, hdrIn, hdrWord, hdrOut, geoms, avail, gmem, gz, heap, q>>

\* lines 501-504: one turn of the writing loop
jsonify_geoms_write ==
    /\ comp = "jsonify" /\ pc = "write" /\ jz.i < geomsLength
    /\ jz' = [jz EXCEPT !.i = jz.i + 1, !.w = jsonify_inspectGeom(geoms[jz.i + 1], jz.w)]
    /\ UNCHANGED <<comp, pc, hdrIn, hdrWord, hdrOut, geoms, avail, buff0, buff1, gmem, gz, heap, q>>

jsonify_geoms_return ==
    /\ comp = "jsonify" /\ pc = "write" /\ jz.i >= geomsLength
    /\ pc' = "done"
    /\ UNCHANGED <<comp, hdrIn, hdrWord, hdrOut, geoms, avail, buff0, buff1, jz, gmem, gz, heap, q>>

AvailChoices(gs) == {n \in {0, MeasuredSize(gs) - 1, MeasuredSize(gs), MeasuredSize(gs) + 1} : n >= 0}

Idle == [idle |-> TRUE]

InitJsonify ==
    /\ comp = "jsonify" /\ pc = "measure"
    /\ geoms \in GeomLists
    /\ avail \in AvailChoices(geoms)
    /\ buff0 = 0
    /\ buff1 = Len(geoms)
    /\ jz = JzInit
    /\ hdrIn = Idle /\ hdrWord = 0 /\ hdrOut = Idle
    /\ gmem = <<>> /\ gz = Idle /\ heap = Idle /\ q = Idle

NextJsonify ==
    \/ jsonify_geoms_measure
    \/ jsonify_geoms_select
    \/ jsonify_geoms_write
    \/ jsonify_geoms_return

SpecJsonify == InitJsonify /\ [][NextJsonify]_vars

(***************************************************************************)
(* geosify: the coordinate-sequence pass (geosify_geomsCoords).            *)
(* st = [mem, dLength, d, s, top, status, seqs]: mem are the words from    *)
(* buff + 2 on (D[i] is mem[i + 1], S[i] is D[dLength + i]), d and s the   *)
(* two cursors, top one more than the highest index dereferenced through   *)
(* D, seqs the coordinate sequences allocated so far.  status turns "cut"  *)
(* when the walk leaves the words the model keeps.                         *)
(***************************************************************************)
Max(a, b) == IF a >= b THEN a ELSE b

CsHandle(k) == 8 * (CsSlot + k)      \* (uptr) cs
CsData(k)   == 8 * CsSlot + k        \* (uptr) cs->data() / 8

Running(st) == st.status = "run"
InWindow(st, idx) == idx < Len(st.mem)
Cut(st) == [st EXCEPT !.status = "cut"]

\* const u32 x = s->D[s->d++]
Fetch(st) == [st EXCEPT !.d = st.d + 1, !.top = Max(st.top, st.d + 1)]
Word(st) == st.mem[st.d + 1]

geosify_coords(st, hasZflag, hasMflag) ==
    IF ~Running(st) THEN st
    ELSE IF ~InWindow(st, st.d) \/ ~InWindow(st, st.dLength + st.s) THEN Cut(st)
    ELSE LET ptsLength == Word(st)
             k == Len(st.seqs)
             mem1 == [st.mem EXCEPT ![st.d + 1] = CsHandle(k)]
             mem2 == [mem1 EXCEPT ![st.dLength + st.s + 1] = CsData(k)]
         IN  [Fetch(st) EXCEPT !.mem = mem2, !.s = st.s + 1,
                               !.seqs = Append(st.seqs, [n |-> ptsLength, z |-> hasZflag,
                                                         m |-> hasMflag, at |-> st.d])]

RECURSIVE CoordsLoop(_, _, _, _)
CoordsLoop(st, n, hasZflag, hasMflag) ==
    IF n = 0 \/ ~Running(st) THEN st
    ELSE CoordsLoop(geosify_coords(st, hasZflag, hasMflag), n - 1, hasZflag, hasMflag)

CoordsListCountAsSequence(st, hasZflag, hasMflag) == geosify_coords(st, hasZflag, hasMflag)

\* const u32 pptsLength = s->D[s->d++]; for (...) geosify_coords(...)
CoordsList(st, hasZflag, hasMflag) ==
    IF ~Running(st) THEN st
    ELSE IF ~InWindow(st, st.d) THEN Cut(st)
    ELSE CoordsLoop(Fetch(st), Word(st), hasZflag, hasMflag)

RECURSIVE CoordsListLoop(_, _, _, _)
CoordsListLoop(st, n, hasZflag, hasMflag) ==
    IF n = 0 \/ ~Running(st) THEN st
    ELSE CoordsListLoop(CoordsList(st, hasZflag, hasMflag), n - 1, hasZflag, hasMflag)

RECURSIVE geosify_geomCoords(_)
RECURSIVE GeomCoordsLoop(_, _)

GeomCoordsLoop(st, n) ==
    IF n = 0 \/ ~Running(st) THEN st
    ELSE GeomCoordsLoop(geosify_geomCoords(st), n - 1)

geosify_geomCoords(st) ==
    IF ~Running(st) THEN st
    ELSE IF ~InWindow(st, st.d) THEN Cut(st)
    ELSE
      LET header == Word(st)
          type == HeaderType(header)
          hz == HeaderHasZ(header)
          hm == HeaderHasM(header)
          st1 == Fetch(st)
      IN  IF type \in {GEOS_LINESTRING, GEOS_CIRCULARSTRING} THEN geosify_coords(st1, hz, hm)
          ELSE IF type \in {GEOS_POLYGON, GEOS_MULTILINESTRING} THEN CoordsList(st1, hz, hm)
          ELSE IF type = GEOS_MULTIPOINT THEN [st1 EXCEPT !.d = st1.d + 1]
          ELSE IF type = GEOS_MULTIPOLYGON THEN
              IF ~InWindow(st1, st1.d) THEN Cut(st1)
              ELSE CoordsListLoop(Fetch(st1), Word(st1), hz, hm)
          ELSE IF type \in {GEOS_GEOMETRYCOLLECTION, GEOS_COMPOUNDCURVE, GEOS_CURVEPOLYGON,
                            GEOS_MULTICURVE, GEOS_MULTISURFACE} THEN
              IF ~InWindow(st1, st1.d) THEN Cut(st1)
              ELSE GeomCoordsLoop(Fetch(st1), Word(st1))
          ELSE st1   \* Point, LinearRing: break; no case for the tags 13..15

(***************************************************************************)
(* geosify: the assembly pass (geosify_geoms_r).                           *)
(* st = [mem, dLength, d, f, top, status, used, made, ret]: f the cursor   *)
(* of the float region, used the words consumed as sequence handles (with  *)
(* the index each was read from), made the number of geometries created,   *)
(* ret the value the last call returned.                                   *)
(***************************************************************************)
GeomHandle(k) == 8 * (GeomSlot + k)

\* a kernel constructor: a fresh geometry handle
Create(st) == [st EXCEPT !.made = st.made + 1, !.ret = GeomHandle(st.made)]

PointOrdinatesPacked(hasZflag, hasMflag) == 2 + B2N(hasZflag) + B2N(hasMflag)

PointOrdinates(hasZflag, hasMflag) ==
    IF hasZflag \/ hasMflag THEN 3 + B2N(hasMflag) ELSE 2

geosify_point(st, hasZflag, hasMflag) ==
    IF ~Running(st) THEN st
    ELSE Create([st EXCEPT !.f = st.f + PointOrdinates(hasZflag, hasMflag)])

\* GEOSGeom_create...(ctx, (GEOSCoordSequence *) s->D[s->d++])
TakeSequence(st) ==
    IF ~Running(st) THEN st
    ELSE IF ~InWindow(st, st.d) THEN Cut(st)
    ELSE Create([Fetch(st) EXCEPT !.used = Append(st.used, [h |-> Word(st), at |-> st.d])])

geosify_lineString(st) == TakeSequence(st)
geosify_circularString(st) == TakeSequence(st)

RECURSIVE RingsLoop(_, _)
RingsLoop(st, n) ==
    IF n = 0 \/ ~Running(st) THEN st ELSE RingsLoop(TakeSequence(st), n - 1)

geosify_polygon(st) ==
    IF ~Running(st) THEN st
    ELSE IF ~InWindow(st, st.d) THEN Cut(st)
    ELSE LET pptsLength == Word(st)
         IN  IF pptsLength = 0 THEN Create(Fetch(st))
             ELSE Create(RingsLoop(Fetch(st), pptsLength))

RECURSIVE PointsLoop(_, _, _, _)
PointsLoop(st, n, hasZflag, hasMflag) ==
    IF n = 0 \/ ~Running(st) THEN st
    ELSE PointsLoop(geosify_point(st, hasZflag, hasMflag), n - 1, hasZflag, hasMflag)

RECURSIVE LinesLoop(_, _)
LinesLoop(st, n) ==
    IF n = 0 \/ ~Running(st) THEN st ELSE LinesLoop(geosify_lineString(st), n - 1)

RECURSIVE PolygonsLoop(_, _)
PolygonsLoop(st, n) ==
    IF n = 0 \/ ~Running(st) THEN st ELSE PolygonsLoop(geosify_polygon(st), n - 1)

RECURSIVE geosify_geom(_)
RECURSIVE GeomsLoop(_, _)

GeomsLoop(st, n) ==
    IF n = 0 \/ ~Running(st) THEN st ELSE GeomsLoop(geosify_geom(st), n - 1)

\* return nullptr; // LinearRing should never happen
LinearRingResult(st) == [st EXCEPT !.ret = 0]

geosify_geom(st) ==
    IF ~Running(st) THEN st
    ELSE IF ~InWindow(st, st.d) THEN Cut(st)
    ELSE
      LET header == Word(st)
          type == HeaderType(header)
          st1 == Fetch(st)
          n == Word(st1)      \* the count word, where the case reads one
      IN  IF type = GEOS_POINT THEN
              IF HeaderIsEmpty(header) THEN Create(st1)
              ELSE geosify_point(st1, HeaderHasZ(header), HeaderHasM(header))
          ELSE IF type = GEOS_LINESTRING THEN geosify_lineString(st1)
          ELSE IF type = GEOS_POLYGON THEN geosify_polygon(st1)
          ELSE IF type = GEOS_CIRCULARSTRING THEN geosify_circularString(st1)
          ELSE IF type = GEOS_LINEARRING THEN LinearRingResult(st1)
          ELSE IF type > GEOS_MULTISURFACE THEN
              \* no case and no return statement: the returned value is undefined
              \* and the model follows the call no further
              [st1 EXCEPT !.status = "undefined"]
          ELSE IF ~InWindow(st1, st1.d) THEN Cut(st1)
          ELSE IF n = 0 THEN Create(Fetch(st1))
          ELSE IF type = GEOS_MULTIPOINT THEN
              Create(PointsLoop(Fetch(st1), n, HeaderHasZ(header), HeaderHasM(header)))
          ELSE IF type = GEOS_MULTILINESTRING THEN Create(LinesLoop(Fetch(st1), n))
          ELSE IF type = GEOS_MULTIPOLYGON THEN Create(PolygonsLoop(Fetch(st1), n))
          ELSE Create(GeomsLoop(Fetch(st1), n))

(***************************************************************************)
(* The two decode calls as the host makes them: geosify_geomsCoords, then  *)
(* (the coordinates written by the host) geosify_geoms_r on the same       *)
(* buffer.  gz = [dLength, sLength, d, s, f, o, top, status, seqs, used,   *)
(* made].                                                                  *)
(***************************************************************************)
Tags == 0..GEOS_MULTISURFACE
Junk == {0, GEOS_LINEARRING}

\* n words of integer region followed by what the memory behind it holds
BuffersOf(n) ==
    {dw \o jw : dw \in [1..n -> Tags], jw \in [1..(MaxD + MaxOver - n) -> Junk]}

\* The integer region as the host describes a geometry for the decoder: the
\* words in the order geosify_geom reads them (lines 142-249), each with the
\* role the decoder gives it: "header", "count" (children, rings, points of a
\* MultiPoint) or "points" (the point count of one coordinate sequence).
Wd(w, r) == [w |-> w, r |-> r]

RECURSIVE Flatten(_)
Flatten(ss) == IF ss = <<>> THEN <<>> ELSE Head(ss) \o Flatten(Tail(ss))

DescribeRings(polygon) ==
    IF isEmpty(polygon) THEN <<Wd(0, "count")>>
    ELSE <<Wd(Len(polygon.kids), "count")>>
         \o [i \in 1..Len(polygon.kids) |-> Wd(polygon.kids[i].n, "points")]

RECURSIVE Describe(_)
Describe(g) ==
    LET header == Wd(PackHeader(g.t, isEmpty(g), hasZ(g), hasM(g)), "header")
        count == Wd(Len(g.kids), "count")
    IN  IF g.t = GEOS_POINT THEN <<header>>
        ELSE IF g.t \in {GEOS_LINESTRING, GEOS_CIRCULARSTRING} THEN
            <<header, Wd(g.n, "points")>>
        ELSE IF g.t = GEOS_POLYGON THEN <<header>> \o DescribeRings(g)
        ELSE IF g.t = GEOS_MULTIPOINT THEN <<header, count>>
        ELSE IF g.t = GEOS_MULTILINESTRING THEN
            <<header, count>> \o [i \in 1..Len(g.kids) |-> Wd(g.kids[i].n, "points")]
        ELSE IF g.t = GEOS_MULTIPOLYGON THEN
            <<header, count>> \o Flatten([i \in 1..Len(g.kids) |-> DescribeRings(g.kids[i])])
        ELSE IF g.t = GEOS_CURVEPOLYGON /\ isEmpty(g) THEN <<header, Wd(0, "count")>>
        ELSE <<header, count>> \o Flatten([i \in 1..Len(g.kids) |-> Describe(g.kids[i])])

\* the trees the decoder has a constructor for: no LinearRing where a header stands
RECURSIVE Decodable(_)
Decodable(g) ==
    IF g.t = GEOS_LINEARRING THEN FALSE
    ELSE IF g.t = GEOS_CURVEPOLYGON /\ isEmpty(g) THEN TRUE
    ELSE IF g.t \in {GEOS_GEOMETRYCOLLECTION, GEOS_COMPOUNDCURVE, GEOS_CURVEPOLYGON,
                     GEOS_MULTICURVE, GEOS_MULTISURFACE}
        THEN \A i \in 1..Len(g.kids) : Decodable(g.kids[i])
    ELSE TRUE

DescribedLists ==
    UNION {{<<g>> \o rest : g \in {x \in GeomsOf(z, m) : Decodable(x)},
                            rest \in SeqsUpTo(MoreGeomsOf(z, m), MaxGeoms - 1)} :
           z \in BOOLEAN, m \in BOOLEAN}

DescribeAll(gs) == Flatten([i \in 1..Len(gs) |-> Describe(gs[i])])

\* the integer regions the host can write for the lists above
Descriptions == {DescribeAll(gs) : gs \in DescribedLists}

\* the buffer around a description: D, one slot of S per coordinate sequence,
\* and the words behind it
BufferOf(ds) ==
    ds \o [i \in 1..(Cardinality({j \in 1..Len(ds) : ds[j].r = "points"}) + MaxOver) |->
             Wd(0, "none")]

\* roles and input keep what the host wrote: the role of each described word
\* (none for arbitrary tags) and the words themselves
GzInit(n, roles, input) ==
    [dLength |-> n, sLength |-> 0, d |-> 0, s |-> 0, f |-> 0, o |-> 0, top |-> 0,
     status |-> "run", seqs |-> <<>>, used |-> <<>>, made |-> 0, roles |-> roles,
     input |-> input]

\* what the other components hold while the decoder runs
GeosifyRest ==
    /\ hdrIn = Idle /\ hdrWord = 0 /\ hdrOut = Idle
    /\ geoms = <<>> /\ avail = 0 /\ buff0 = 0 /\ buff1 = 0 /\ jz = Idle
    /\ heap = Idle /\ q = Idle

\* the buffer holds n arbitrary tags
InitGeosifyTags ==
    /\ comp = "geosify" /\ pc = "coords"
    /\ \E n \in 0..MaxD :
         /\ gmem \in BuffersOf(n)
         /\ gz = GzInit(n, <<>>, gmem)
    /\ GeosifyRest

\* the buffer holds the description of a list of geometries, followed by a
\* handle region with one slot per coordinate sequence
InitGeosifyDescribed ==
    /\ comp = "geosify" /\ pc = "coords"
    /\ \E ds \in Descriptions :
         /\ gmem = [i \in 1..Len(BufferOf(ds)) |-> BufferOf(ds)[i].w]
         /\ gz = GzInit(Len(ds), [i \in 1..Len(ds) |-> ds[i].r], gmem)
    /\ GeosifyRest

InitGeosify == InitGeosifyTags \/ InitGeosifyDescribed

CoordsState ==
    [mem |-> gmem, dLength |-> gz.dLength, d |-> gz.d, s |-> gz.s, top |-> gz.top,
     status |-> gz.status, seqs |-> gz.seqs]

GeomsState ==
    [mem |-> gmem, dLength |-> gz.dLength, d |-> gz.d, f |-> gz.f, top |-> gz.top,
     status |-> gz.status, used |-> gz.used, made |-> gz.made, ret |-> 0]

\* lines 99-101: one turn of the loop of geosify_geomsCoords
geosify_geomsCoords_turn ==
    /\ comp = "geosify" /\ pc = "coords" /\ gz.status = "run" /\ gz.d < gz.dLength
    /\ LET st == geosify_geomCoords(CoordsState)
       IN  /\ gmem' = st.mem
           /\ gz' = [gz EXCEPT !.d = st.d, !.s = st.s, !.top = st.top, !.status = st.status,
                               !.seqs = st.seqs]
    /\ UNCHANGED <<comp, pc, hdrIn, hdrWord, hdrOut, geoms, avail, buff0, buff1, jz, heap, q>>

\* geosify_geomsCoords returns; the host calls geosify_geoms_r (lines 252-257)
geosify_geoms_r_enter ==
    /\ comp = "geosify" /\ pc = "coords" /\ gz.status = "run" /\ gz.d >= gz.dLength
    /\ pc' = "geoms"
    /\ gz' = [gz EXCEPT !.sLength = gz.s, !.d = 0, !.f = 0, !.o = 0]
    /\ UNCHANGED <<comp, hdrIn, hdrWord, hdrOut, geoms, avail, buff0, buff1, jz, gmem, heap, q>>

\* lines 259-261: one turn of the loop of geosify_geoms_r
geosify_geoms_r_turn ==
    /\ comp = "geosify" /\ pc = "geoms" /\ gz.status = "run" /\ gz.d < gz.dLength
    /\ LET st == geosify_geom(GeomsState)
       IN  /\ gmem' = IF st.status = "run" THEN [st.mem EXCEPT ![gz.o + 1] = st.ret] ELSE st.mem
           /\ gz' = [gz EXCEPT !.d = st.d, !.f = st.f, !.top = st.top, !.status = st.status,
                               !.used = st.used, !.made = st.made,
                               !.o = IF st.status = "run" THEN gz.o + 1 ELSE gz.o]
    /\ UNCHANGED <<comp, pc, hdrIn, hdrWord, hdrOut, geoms, avail, buff0, buff1, jz, heap, q>>

geosify_geoms_r_return ==
    /\ comp = "geosify" /\ pc = "geoms" /\ gz.status = "run" /\ gz.d >= gz.dLength
    /\ pc' = "done"
    /\ UNCHANGED <<comp, hdrIn, hdrWord, hdrOut, geoms, avail, buff0, buff1, jz, gmem, gz, heap, q>>

NextGeosify ==
    \/ geosify_geomsCoords_turn
    \/ geosify_geoms_r_enter
    \/ geosify_geoms_r_turn
    \/ geosify_geoms_r_return

SpecGeosify == InitGeosify /\ [][NextGeosify]_vars

(***************************************************************************)
(* STRtree.  heap holds the allocation state of the geometry array the     *)
(* caller passed, of the GEOSSTRtree and of the STRtree wrapper; q is the  *)
(* STRtreeNearestState of the running query together with the kernel's     *)
(* calls of distanceCallback so far (evaluated: item, whether              *)
(* GEOSDistance_r succeeded, the distance it computed).  Distances are     *)
(* counted in units of 1e-6.                                               *)
(***************************************************************************)
Nudge == 1
DoubleInfinity == MaxDist + Nudge + 1
Dists == 0..MaxDist

QNone ==
    [mode |-> "none", phase |-> "none", minDistance |-> DoubleInfinity, matches |-> <<>>,
     evaluated |-> <<>>, reported |-> DoubleInfinity, matchesLength |-> 0, ret |-> <<>>,
     error |-> "none"]

InitSTRtree ==
    /\ comp = "strtree" /\ pc = "new"
    /\ heap \in [ngeoms : 0..NGeoms, arr : {"allocated"}, geomObjs : {"alive"},
                 tree : {"none"}, wrapper : {"none"}, items : {{}}]
    /\ q = QNone
    /\ hdrIn = Idle /\ hdrWord = 0 /\ hdrOut = Idle
    /\ geoms = <<>> /\ avail = 0 /\ buff0 = 0 /\ buff1 = 0 /\ jz = Idle
    /\ gmem = <<>> /\ gz = Idle

\* lines 517-525: items are the positions 0..ngeoms-1; the wrapper keeps geoms
STRtree_create_r ==
    /\ comp = "strtree" /\ pc = "new"
    /\ heap' = [heap EXCEPT !.tree = "built", !.wrapper = "live", !.items = 0..(heap.ngeoms - 1)]
    /\ pc' = "idle"
    /\ UNCHANGED <<comp, hdrIn, hdrWord, hdrOut, geoms, avail, buff0, buff1, jz, gmem, gz, q>>

DestroyKeepsArray(h) == [h EXCEPT !.tree = "destroyed", !.wrapper = "deleted"]

\* lines 527-531
Destroy(h) == [h EXCEPT !.tree = "destroyed", !.arr = "freed", !.wrapper = "deleted"]

STRtree_destroy_r ==
    /\ comp = "strtree" /\ pc = "idle"
    /\ heap' = Destroy(heap)
    /\ pc' = "destroyed"
    /\ UNCHANGED <<comp, hdrIn, hdrWord, hdrOut, geoms, avail, buff0, buff1, jz, gmem, gz, q>>

\* the orders in which the kernel may hand items to a callback
RECURSIVE Orders(_)
Orders(S) ==
    {<<>>} \cup UNION {{<<x>> \o o : o \in Orders(S \ {x})} : x \in S}

\* lines 534-551: queryCallback run on the candidates the kernel finds
STRtree_query_r ==
    /\ comp = "strtree" /\ pc = "idle"
    /\ \E found \in Orders(heap.items) :
         q' = [QNone EXCEPT !.mode = "query", !.phase = "returned", !.matches = found,
                            !.matchesLength = Len(found), !.ret = found]
    /\ UNCHANGED <<comp, pc, hdrIn, hdrWord, hdrOut, geoms, avail, buff0, buff1, jz, gmem, gz, heap>>

\* lines 589 and 601: STRtreeNearestState s = {ctx, tree->geoms[, true]}
STRtree_nearest_begin ==
    /\ comp = "strtree" /\ pc = "idle"
    /\ \E mode \in {"one", "all"} : q' = [QNone EXCEPT !.mode = mode, !.phase = "search"]
    /\ pc' = "search"
    /\ UNCHANGED <<comp, hdrIn, hdrWord, hdrOut, geoms, avail, buff0, buff1, jz, gmem, gz, heap>>

\* lines 571-584, with dist as GEOSDistance_r left it
AfterDistance(s, treeGeomIndex, dist) ==
    LET min1 == IF dist < s.minDistance THEN dist ELSE s.minDistance
        m1 == IF dist < s.minDistance THEN <<>> ELSE s.matches
        tie == dist = min1
    IN  [s EXCEPT !.minDistance = min1,
                  !.matches = IF tie THEN Append(m1, treeGeomIndex) ELSE m1,
                  !.reported = IF tie /\ s.mode = "all" THEN dist + Nudge ELSE dist]

\* lines 562-586.  GEOSDistance_r writes dist on success; on failure it returns 0,
\* which is not looked at, and dist keeps the value the stack held.
distanceCallback ==
    /\ comp = "strtree" /\ pc = "search"
    /\ \E item \in heap.items \ {q.evaluated[k].item : k \in 1..Len(q.evaluated)} :
       \E ok \in BOOLEAN, dist \in Dists :
         q' = [AfterDistance(q, item, dist) EXCEPT
                  !.evaluated = Append(q.evaluated, [item |-> item, ok |-> ok, dist |-> dist])]
    /\ UNCHANGED <<comp, pc, hdrIn, hdrWord, hdrOut, geoms, avail, buff0, buff1, jz, gmem, gz, heap>>

\* lines 592-597
STRtree_nearest_r_return ==
    /\ comp = "strtree" /\ pc = "search" /\ q.mode = "one"
    /\ LET n == Len(q.matches)
       IN  q' = [q EXCEPT !.phase = "returned", !.matchesLength = n,
                          !.ret = IF n # 0 THEN <<Head(q.matches)>> ELSE <<0>>]
    /\ pc' = "idle"
    /\ UNCHANGED <<comp, hdrIn, hdrWord, hdrOut, geoms, avail, buff0, buff1, jz, gmem, gz, heap>>

\* lines 604-611
STRtree_nearestAll_r_return ==
    /\ comp = "strtree" /\ pc = "search" /\ q.mode = "all"
    /\ LET n == Len(q.matches)
       IN  q' = [q EXCEPT !.phase = "returned", !.matchesLength = n, !.ret = q.matches]
    /\ pc' = "idle"
    /\ UNCHANGED <<comp, hdrIn, hdrWord, hdrOut, geoms, avail, buff0, buff1, jz, gmem, gz, heap>>

NextSTRtree ==
    \/ STRtree_create_r
    \/ STRtree_destroy_r
    \/ STRtree_query_r
    \/ STRtree_nearest_begin
    \/ distanceCallback
    \/ STRtree_nearest_r_return
    \/ STRtree_nearestAll_r_return

SpecSTRtree == InitSTRtree /\ [][NextSTRtree]_vars

(***************************************************************************)
(* Header component: the encoder's packing of a header word (line 382)     *)
(* followed by the decoder's extraction of its fields (lines 143-153).     *)
(***************************************************************************)
TypeTags == 0..15

InitHeader ==
    /\ comp = "header" /\ pc = "pack"
    /\ hdrIn \in [type : TypeTags, isEmpty : BOOLEAN, hasZ : BOOLEAN, hasM : BOOLEAN]
    /\ hdrWord = 0 /\ hdrOut = Idle
    /\ geoms = <<>> /\ avail = 0 /\ buff0 = 0 /\ buff1 = 0 /\ jz = Idle
    /\ gmem = <<>> /\ gz = Idle /\ heap = Idle /\ q = Idle

header_pack ==
    /\ comp = "header" /\ pc = "pack"
    /\ hdrWord' = PackHeader(hdrIn.type, hdrIn.isEmpty, hdrIn.hasZ, hdrIn.hasM)
    /\ pc' = "unpack"
    /\ UNCHANGED <<comp, hdrIn, hdrOut, geoms, avail, buff0, buff1, jz, gmem, gz, heap, q>>

header_unpack ==
    /\ comp = "header" /\ pc = "unpack"
    /\ hdrOut' = UnpackHeader(hdrWord)
    /\ pc' = "done"
    /\ UNCHANGED <<comp, hdrIn, hdrWord, geoms, avail, buff0, buff1, jz, gmem, gz, heap, q>>

NextHeader == header_pack \/ header_unpack

SpecHeader == InitHeader /\ [][NextHeader]_vars

(***************************************************************************)
(* Claims about jsonify_geoms (checked under SpecJsonify).                 *)
(***************************************************************************)
JsonifyDone == comp = "jsonify" /\ pc = "done"
RoundUpEven(n) == n + (n % 2)

\* C1: for every list of geometry trees, the counts of the measuring pass
\* (bCount, fCount of jsonify_measureGeom over the list) equal the cursors b
\* and f the writing pass ends with.
C1_MeasureEqualsWrite ==
    JsonifyDone =>
        /\ jz.w.b = MeasureAll(geoms).b
        /\ jz.w.f = MeasureAll(geoms).f

\* C2: spare capacity equal to the measured size bCount + 2 * fCount: the
\* encoder writes in place, leaves buff[0] alone and starts the integer output
\* at word 2 + geomsLength; spare capacity one word short: it allocates, stores
\* the new address in buff[0] and writes there; in both branches buff[1] is the
\* /8 address of the float region, the first 8-byte boundary after the integer
\* words of the chosen buffer.
C2_BufferBoundary ==
    (comp = "jsonify" /\ pc \in {"write", "done"}) =>
        LET M == MeasuredSize(geoms)
            mb == MeasureAll(geoms).b
            o == 2 + geomsLength
        IN  /\ avail = M =>
                /\ jz.where = "in"
                /\ buff0 = 0
                /\ jz.Baddr = BuffAddr + 4 * o
            /\ avail = M - 1 =>
                /\ jz.where = "tmp"
                /\ buff0 = TmpAddr
                /\ jz.Baddr = buff0
            /\ jz.where = "in" => buff1 * 8 = BuffAddr + 4 * RoundUpEven(o + mb)
            /\ jz.where = "tmp" => buff1 * 8 = buff0 + 4 * RoundUpEven(mb)
            /\ buff1 * 8 = jz.Faddr

\* C2 witness: two geometries, spare capacity one word short of the measured
\* size, and the output went to the freshly allocated buffer.
C2_Witness ==
    /\ JsonifyDone /\ geomsLength = 2
    /\ avail = MeasuredSize(geoms) - 1
    /\ jz.where = "tmp" /\ jz.w.b > 0 /\ jz.w.f > 0

\* the members of a collection that are written through jsonify_inspectGeom and
\* are a Point or empty: each takes one word
OneWordMembers(g) ==
    /\ g.t \in {GEOS_GEOMETRYCOLLECTION, GEOS_MULTICURVE, GEOS_MULTISURFACE}
    /\ ~isEmpty(g)
    /\ \A k \in 1..Len(g.kids) : g.kids[k].t = GEOS_POINT \/ isEmpty(g.kids[k])

\* C6: writing an empty geometry, whatever its type, advances the integer cursor
\* by exactly one word and the float cursor not at all; the word written is the
\* header of that geometry with the isEmpty bit set (no count word follows, the
\* geometry is not descended into).  The same holds for an empty member inside a
\* non-empty collection: it takes one header word with the isEmpty bit set.
C6_EmptyWritesHeaderOnly ==
    [][(comp = "jsonify" /\ pc = "write" /\ jz.i < geomsLength) =>
          LET g == geoms[jz.i + 1]
              b0 == jz.w.b
          IN  /\ isEmpty(g) =>
                  /\ jz'.w.b = b0 + 1
                  /\ Len(jz'.w.B) = b0 + 1
                  /\ jz'.w.f = jz.w.f
                  /\ jz'.w.F = jz.w.F
                  /\ HeaderIsEmpty(jz'.w.B[b0 + 1])
                  /\ HeaderType(jz'.w.B[b0 + 1]) = g.t
              /\ OneWordMembers(g) =>
                  /\ jz'.w.b = b0 + 2 + Len(g.kids)
                  /\ \A k \in 1..Len(g.kids) :
                        /\ HeaderType(jz'.w.B[b0 + 2 + k]) = g.kids[k].t
                        /\ HeaderIsEmpty(jz'.w.B[b0 + 2 + k]) = isEmpty(g.kids[k])
                  /\ jz'.w.f = jz.w.f
                        + Cardinality({k \in 1..Len(g.kids) : ~isEmpty(g.kids[k])})
                          * Ordinates(hasZ(g), hasM(g))
      ]_vars

\* C6 witness: an empty MultiPolygon was written as the single word
\* {type = MultiPolygon, isEmpty = 1}.
C6_Witness ==
    /\ JsonifyDone
    /\ geoms = <<Node(GEOS_MULTIPOLYGON, FALSE, FALSE, 0, <<>>)>>
    /\ jz.w.B = <<GEOS_MULTIPOLYGON + 16>>
    /\ jz.w.f = 0

\* C13: when the encoder writes in place (bCount + 2 * fCount <= spare
\* capacity), every word it writes lies inside the spare region
\* [o, o + spare capacity) with o = 2 + geomsLength, whatever the parity of
\* o + bCount; the integer output and the float output do not overlap, and the
\* handle slots at words 2..o-1 are not written.
C13_InPlaceWithinSpare ==
    (comp = "jsonify" /\ pc \in {"write", "done"} /\ jz.where = "in") =>
        LET o == 2 + geomsLength
            Bw == (jz.Baddr - BuffAddr) \div 4
            Fw == (jz.Faddr - BuffAddr) \div 4
            BWords == {Bw + i : i \in 0..(Len(jz.w.B) - 1)}
            FWords == {Fw + j : j \in 0..(2 * Len(jz.w.F) - 1)}
        IN  /\ \A x \in BWords \cup FWords : o <= x /\ x < o + avail
            /\ BWords \cap FWords = {}
            /\ (BWords \cup FWords) \cap (2..(o - 1)) = {}

(***************************************************************************)
(* Claims about the header word (checked under SpecHeader).                *)
(***************************************************************************)
\* C5: for every type tag 0..15 and every combination of the three flags, the
\* fields the decoder extracts from the word the encoder packed are the four
\* values that were packed.
C5_HeaderRoundTrip ==
    (comp = "header" /\ pc = "done") => hdrOut = hdrIn

\* C5 witness: the largest tag with all three flags set went through both
\* directions.
C5_Witness ==
    /\ comp = "header" /\ pc = "done"
    /\ hdrIn = [type |-> 15, isEmpty |-> TRUE, hasZ |-> TRUE, hasM |-> TRUE]
    /\ hdrWord = 127

(***************************************************************************)
(* Claims about the decoder (checked under SpecGeosify).                   *)
(***************************************************************************)
\* C7: when geosify_geoms_r meets a LinearRing header at top level, the call ends
\* with an UnsupportedGeometry error: no null handle is stored in the output slot
\* and the loop does not go on as if the geometry had been decoded.
C7_TopLevelLinearRingRejected ==
    [][(comp = "geosify" /\ pc = "geoms" /\ gz.status = "run" /\ gz.d < gz.dLength
          /\ HeaderType(gmem[gz.d + 1]) = GEOS_LINEARRING) =>
          /\ gz'.status = "UnsupportedGeometry"
          /\ ~(gz'.o = gz.o + 1 /\ gmem'[gz.o + 1] = 0)
      ]_vars

\* C8: in both decode passes the integer cursor never passes dLength unless the
\* call ends with a malformed-input error, and no word of the integer region at
\* an index >= dLength is read or overwritten through D.
C8_CursorWithinRegion ==
    comp = "geosify" =>
        \/ gz.status = "MalformedBuffer"
        \/ /\ gz.d <= gz.dLength
           /\ gz.top <= gz.dLength

\* the buffer was written by the host as the description of a list of geometries
Described == comp = "geosify" /\ gz.roles # <<>>

\* C12: for a buffer made of supported geometry encodings, the pre-pass
\* overwrites only point-count words of coordinate sequences (header and count
\* words keep what the host wrote), the k-th word it overwrites with a sequence
\* handle is the k-th word the assembly pass consumes as a sequence handle, the
\* number of entries appended to S equals the number of handles the assembly
\* pass consumes, and no handle is consumed twice or left unconsumed; both
\* passes end with the cursor exactly at dLength.
C12_PassesInLockstep ==
    Described =>
        /\ gz.status = "run"
        /\ gz.d <= gz.dLength
        /\ Len(gz.seqs) = gz.s
        \* the words the pre-pass has overwritten are point-count words
        /\ \A k \in 1..Len(gz.seqs) :
              /\ gz.roles[gz.seqs[k].at + 1] = "points"
              /\ gz.seqs[k].n = gz.input[gz.seqs[k].at + 1]
              /\ gmem[gz.dLength + k] = CsData(k - 1)
              /\ \A j \in 1..Len(gz.seqs) : gz.seqs[j].at = gz.seqs[k].at => j = k
        /\ pc = "coords" =>
              \A i \in 1..gz.dLength :
                  IF \E k \in 1..Len(gz.seqs) : gz.seqs[k].at = i - 1
                      THEN \E k \in 1..Len(gz.seqs) :
                              gz.seqs[k].at = i - 1 /\ gmem[i] = CsHandle(k - 1)
                      ELSE gmem[i] = gz.input[i]
        \* once the pre-pass is over every point-count word holds a handle
        /\ pc \in {"geoms", "done"} =>
              /\ gz.sLength = Len(gz.seqs)
              /\ Len(gz.seqs) = Cardinality({i \in 1..gz.dLength : gz.roles[i] = "points"})
              /\ Len(gz.used) <= Len(gz.seqs)
              /\ \A k \in 1..Len(gz.used) :
                    /\ gz.used[k].at = gz.seqs[k].at
                    /\ gz.used[k].h = CsHandle(k - 1)
        /\ pc = "done" =>
              /\ gz.d = gz.dLength
              /\ Len(gz.used) = gz.sLength

\* C12 witness: a described list of two geometries with three coordinate
\* sequences went through both passes.
C12_Witness ==
    /\ Described /\ pc = "done"
    /\ gz.o = 2
    /\ Len(gz.used) = 3
    /\ \E i \in 1..gz.dLength : gz.roles[i] = "count"

(***************************************************************************)
(* The codec: a behaviour runs the encoder on a list of geometries or the  *)
(* decoder on the description of one.                                      *)
(***************************************************************************)
InitCodec == InitJsonify \/ InitGeosifyDescribed
NextCodec == NextJsonify \/ NextGeosify
SpecCodec == InitCodec /\ [][NextCodec]_vars

(***************************************************************************)
(* Claims about both directions of the codec (checked under SpecCodec).    *)
(***************************************************************************)
\* ordinates per point as the specification states them
ClaimedOrdinates(z, m) == 2 + B2N(z) + B2N(m)
\* ordinates per point with the Z slot kept whenever M is present
StrideOrdinates(z, m) == IF z /\ m THEN 4 ELSE IF m THEN 4 ELSE IF z THEN 3 ELSE 2

\* the float cursors move by Ord(z, m) per point: the decoder's cursor on a
\* non-empty Point and on each element of a MultiPoint, the encoder's measuring
\* counter on a non-empty Point and on each MultiPoint element, the encoder's
\* writing cursor (and the floats written) on a non-empty Point and on each
\* element of a MultiPoint that is written out
OrdinatesStep(Ord(_, _)) ==
    /\ (comp = "geosify" /\ pc = "geoms" /\ gz.status = "run" /\ gz.d < gz.dLength
           /\ gz'.status = "run") =>
          LET header == gmem[gz.d + 1]
              n == Ord(HeaderHasZ(header), HeaderHasM(header))
          IN  /\ (HeaderType(header) = GEOS_POINT /\ ~HeaderIsEmpty(header)) =>
                    gz'.f = gz.f + n
              /\ HeaderType(header) = GEOS_MULTIPOINT =>
                    gz'.f = gz.f + gmem[gz.d + 2] * n
    /\ (comp = "jsonify" /\ pc = "measure" /\ jz.i < geomsLength) =>
          LET g == geoms[jz.i + 1]
              n == Ord(hasZ(g), hasM(g))
          IN  /\ (g.t = GEOS_POINT /\ ~isEmpty(g)) => jz'.fCount = jz.fCount + n
              /\ g.t = GEOS_MULTIPOINT => jz'.fCount = jz.fCount + getNumGeometries(g) * n
    /\ (comp = "jsonify" /\ pc = "write" /\ jz.i < geomsLength) =>
          LET g == geoms[jz.i + 1]
              n == Ord(hasZ(g), hasM(g))
              k == IF g.t = GEOS_POINT THEN 1 ELSE getNumGeometries(g)
          IN  (g.t \in {GEOS_POINT, GEOS_MULTIPOINT} /\ ~isEmpty(g)) =>
                  /\ jz'.w.f = jz.w.f + k * n
                  /\ Len(jz'.w.F) = jz.w.f + k * n

\* C11 as stated: the number of float ordinates taken per point is XY=2, XYZ=3,
\* XYM=3, XYZM=4, in the decoder's assembly pass and in the encoder's measuring
\* and writing passes.
C11_OrdinatesPerPoint == [][OrdinatesStep(ClaimedOrdinates)]_vars

\* C11 amended: the number of float ordinates taken per point is XY=2, XYZ=3,
\* XYM=4 (the Z slot is kept), XYZM=4: decoding a non-empty Point or each element
\* of a MultiPoint advances the float cursor by that number, the measuring pass
\* adds it per non-empty Point and per MultiPoint element, the writing pass adds
\* it per non-empty Point and per element of a non-empty MultiPoint.
C11_OrdinatesPerPointStride == [][OrdinatesStep(StrideOrdinates)]_vars

\* C11 witness: the decoder went through a MultiPoint of two XYM points and its
\* float cursor stands at 8.
C11_Witness ==
    /\ comp = "geosify" /\ pc = "done"
    /\ gz.roles = <<"header", "count">>
    /\ gmem[2] = 2
    /\ gz.f = 8
    /\ gz.seqs = <<>>

(***************************************************************************)
(* Claims about the STRtree layer (checked under SpecSTRtree).             *)
(***************************************************************************)
\* the distances GEOSDistance_r computed among the evaluations so far
TrueDists(ev) == {ev[k].dist : k \in {j \in 1..Len(ev) : ev[j].ok}}
MinOf(S) == IF S = {} THEN DoubleInfinity ELSE CHOOSE x \in S : \A y \in S : x <= y
\* the items evaluated at true distance d, in evaluation order
RECURSIVE ItemsAt(_, _)
ItemsAt(ev, d) ==
    IF ev = <<>> THEN <<>>
    ELSE (IF Head(ev).ok /\ Head(ev).dist = d THEN <<Head(ev).item>> ELSE <<>>)
         \o ItemsAt(Tail(ev), d)
SomeFailed(ev) == \E k \in 1..Len(ev) : ~ev[k].ok

\* C3: in a nearest-all query, after any sequence of candidate evaluations, the
\* running minimum (initially +infinity) is the minimum of the true distances of
\* the candidates evaluated so far, and the result set is exactly the evaluated
\* candidates at that distance, in evaluation order; the value reported back to
\* the index (nudged by 1e-6 on a tie) changes neither.
C3_NearestAllState ==
    (comp = "strtree" /\ q.mode = "all") =>
        /\ q.minDistance = MinOf(TrueDists(q.evaluated))
        /\ q.matches = ItemsAt(q.evaluated, q.minDistance)

\* C4: a nearest-one query that evaluated candidates returns the first one, in
\* traversal order, at the minimum distance over the evaluated candidates, with
\* match count the number of evaluated candidates at that minimum; with no
\* candidate evaluated it reports match count 0.
C4_NearestOneResult ==
    (comp = "strtree" /\ q.mode = "one" /\ q.phase = "returned") =>
        LET tied == ItemsAt(q.evaluated, MinOf(TrueDists(q.evaluated)))
        IN  /\ q.evaluated = <<>> => q.matchesLength = 0
            /\ tied # <<>> => (q.ret = <<Head(tied)>> /\ q.matchesLength = Len(tied))
            /\ (q.evaluated # <<>> /\ tied = <<>>) => q.matchesLength = 0

\* C9: when the distance computation fails for a candidate of a nearest-one or
\* nearest-all query, the query ends with DistanceComputationFailed: the failed
\* candidate is not in the result set and no result set reaches the caller.
C9_DistanceFailureAborts ==
    (comp = "strtree" /\ q.mode \in {"one", "all"} /\ SomeFailed(q.evaluated)) =>
        /\ \A k \in 1..Len(q.evaluated) :
              ~q.evaluated[k].ok =>
                  \A j \in 1..Len(q.matches) : q.matches[j] # q.evaluated[k].item
        /\ q.phase = "returned" =>
              (q.error = "DistanceComputationFailed" /\ q.matchesLength = 0)

\* C10 as stated: whatever the sequence of buildIndex, queries and destroyIndex,
\* the geometry-handle array passed to buildIndex stays allocated.
C10_ArrayNeverReleased ==
    comp = "strtree" => heap.arr = "allocated"

\* C10 amended: the index takes positions as items and never destroys a
\* geometry, and the array passed to buildIndex stays allocated for as long as the
\* index lives; destroyIndex releases the index, its wrapper and that array.
C10_ArrayReleasedByDestroy ==
    comp = "strtree" =>
        /\ heap.geomObjs = "alive"
        /\ heap.items \subseteq 0..(heap.ngeoms - 1)
        /\ heap.tree \in {"none", "built"} => heap.arr = "allocated"
        /\ heap.tree = "destroyed" => (heap.arr = "freed" /\ heap.wrapper = "deleted")

\* C10 witness: an index over the full array answered a nearest-all query with a
\* tie and was then destroyed.
C10_Witness ==
    /\ comp = "strtree" /\ pc = "destroyed"
    /\ heap.ngeoms = NGeoms
    /\ q.mode = "all" /\ q.phase = "returned" /\ Len(q.ret) = 2

(***************************************************************************)
(* The whole model: a behaviour runs one of the four components.           *)
(***************************************************************************)
Init == InitHeader \/ InitJsonify \/ InitGeosify \/ InitSTRtree
Next == NextHeader \/ NextJsonify \/ NextGeosify \/ NextSTRtree
Spec == Init /\ [][Next]_vars

====
